---- MODULE Spec2Model ----
(***************************************************************************)
(* wl-clipboard-rs: the capability probe (is_primary_selection_supported)  *)
(* run against the test compositor of src/tests/utils.rs, and the wl-copy  *)
(* binary's main() of src/wl_copy.rs.                                      *)
(*                                                                         *)
(* Two specifications share the module.  SpecProbe runs one probe against  *)
(* one test-server set-up; Spec runs one wl-copy process from option       *)
(* parsing to exit.  Each leaves the other's variables untouched.          *)
(***************************************************************************)
EXTENDS Naturals, Sequences, FiniteSets

VARIABLES
    \* ---- test compositor (src/tests/utils.rs) ----
    srvSeats,      \* versions of the wl_seat globals created, in creation order
    srvManager,    \* version of the data-control manager global, 0 = not created
    srvHandler,    \* what the manager's request handler does on GetDataDevice
    answersLeft,   \* server.answer() calls the test has not made yet
    c2s,           \* requests written by the client, not yet handled by the server
    s2c,           \* events written by the server, not yet dispatched by the client
    \* ---- probe (is_primary_selection_supported_internal) ----
    ppc,           \* position of the probe
    pSeats,        \* seats the probe collected from the registry
    pManager,      \* manager version the probe saw, 0 = none
    supported,     \* the flag the primary_selection event handler sets
    result,        \* what the probe returned
    requested,     \* every request the probe has written so far
    \* ---- wl-copy (src/wl_copy.rs) ----
    options,       \* the parsed command line
    manager,       \* the clipboard manager initialize() selected
    seats,         \* the seat list: per seat its name, device and selection
    pc,            \* position of main()
    proc,          \* "main" before the fork, "child" after it
    parent,        \* "running", or "returned" once the fork's parent has left main()
    exit,          \* how the process that runs main() to its end terminated
    source,        \* TRUE once the data source exists
    offers,        \* the labels offered on the source, in order
    should_quit,   \* the Cell<bool> of the source's user data
    fileExists,    \* the backing payload file
    dirExists,     \* its temporary directory
    devices,       \* the devices main() selected (indices into seats)
    pending,       \* source events the compositor has sent, not yet read
    batch,         \* events read by the running dispatch(), not yet handled
    eventsSent,    \* how many source events the compositor has sent
    served,        \* how many transfer requests have been answered
    cancelled,     \* TRUE once the cancelled event has been handled
    hist           \* what main() has done so far (see NoHistory)

probeVars == <<srvSeats, srvManager, srvHandler, answersLeft, c2s, s2c,
               ppc, pSeats, pManager, supported, result, requested>>

mainVars == <<options, manager, seats, pc, proc, parent, exit, source, offers,
              should_quit, fileExists, dirExists, devices, pending, batch,
              eventsSent, served, cancelled, hist>>

vars == <<probeVars, mainVars>>

\* ------------------------------------------------------------------ bounds
MaxSrvSeats == 2
\* Seats the compositor advertises to wl-copy, over the whole run.
MaxSeats == 2
\* Source events the compositor sends to wl-copy.
MaxEvents == 3

\* ------------------------------------------------------- program constants
\* The three server.answer() calls of a test.
NumAnswers == 3
\* The wl_seat version required before version-2 seats were supported.
OldMinSeatVersion == 6
\* Lowest wl_seat version the probe accepts (supports_v2_seats).
MinSeatVersion == 2
\* The version MissingProtocol reports: the lowest manager version accepted.
MinManagerVersion == 1
\* The manager version that introduced the primary_selection event.
PrimaryManagerVersion == 2

ManagerName == "zwlr_data_control_manager_v1"
SeatName == "wl_seat"

\* Seat versions the tests create.
SeatVersions == {2, 6}

RECURSIVE SeqsUpTo(_, _)
SeqsUpTo(S, n) ==
    IF n = 0 THEN {<<>>}
    ELSE LET shorter == SeqsUpTo(S, n - 1)
         IN shorter \cup {Append(s, x) : s \in {t \in shorter : Len(t) = n - 1}, x \in S}

\* --------------------------------------------------------------- results
Ok(b) == [kind |-> "ok", value |-> b]
ErrNoSeats == [kind |-> "err", error |-> "NoSeats"]
ErrSeatVersionTooLow == [kind |-> "err", error |-> "SeatVersionTooLow"]
ErrMissingProtocol(n, v) ==
    [kind |-> "err", error |-> "MissingProtocol", name |-> n, version |-> v]
NoResult == [kind |-> "none"]

\* ------------------------------------------------------ the test compositor
\* The globals a set-up advertises on get_registry: every seat, then the
\* manager when one was created.
RECURSIVE SeatGlobals(_)
SeatGlobals(vs) ==
    IF vs = <<>> THEN <<>>
    ELSE <<[ev |-> "global", interface |-> SeatName, version |-> Head(vs)]>>
         \o SeatGlobals(Tail(vs))

ManagerGlobal(v) ==
    IF v = 0 THEN <<>>
    ELSE <<[ev |-> "global", interface |-> ManagerName, version |-> v]>>

ServerGlobals(seatVs, mgrV) == SeatGlobals(seatVs) \o ManagerGlobal(mgrV)

\* A handler that never sends primary_selection.
ManagerRequestNever(handler, req) == <<>>

\* A handler that sends primary_selection on every GetDataDevice.
ManagerRequestAlways(handler, req) ==
    IF req.req = "get_data_device" THEN <<[ev |-> "primary_selection"]>> ELSE <<>>

\* The manager's request handler: on GetDataDevice the "primary" handler
\* sends primary_selection(None) on the new device, the "silent" one nothing.
ManagerRequest(handler, req) ==
    IF req.req = "get_data_device" /\ handler = "primary"
    THEN <<[ev |-> "primary_selection"]>>
    ELSE <<>>

\* What the server writes in reply to one request.
ServerReply(req, seatVs, mgrV, handler) ==
    CASE req.req = "get_registry" -> ServerGlobals(seatVs, mgrV)
      [] req.req = "sync" -> <<[ev |-> "done"]>>
      [] req.req = "bind" -> <<>>
      [] OTHER -> ManagerRequest(handler, req)

RECURSIVE ServerReplies(_, _, _, _)
ServerReplies(reqs, seatVs, mgrV, handler) ==
    IF reqs = <<>> THEN <<>>
    ELSE ServerReply(Head(reqs), seatVs, mgrV, handler)
         \o ServerReplies(Tail(reqs), seatVs, mgrV, handler)

\* server.answer(): handle every request received, in order, and flush the
\* events.  The test sleeps before each call, so the client has written its
\* requests by then.
ServerAnswer ==
    /\ answersLeft > 0
    /\ c2s # <<>>
    /\ s2c' = s2c \o ServerReplies(c2s, srvSeats, srvManager, srvHandler)
    /\ c2s' = <<>>
    /\ answersLeft' = answersLeft - 1
    /\ UNCHANGED <<srvSeats, srvManager, srvHandler,
                   ppc, pSeats, pManager, supported, result, requested>>
    /\ UNCHANGED mainVars

\* ---------------------------------------------------------------- the probe
\* Connect, ask for the registry and start the first round trip.
ProbeConnect ==
    /\ ppc = "connect"
    /\ LET reqs == <<[req |-> "get_registry"], [req |-> "sync"]>>
       IN /\ c2s' = c2s \o reqs
          /\ requested' = requested \o reqs
    /\ ppc' = "globals"
    /\ UNCHANGED <<srvSeats, srvManager, srvHandler, answersLeft, s2c,
                   pSeats, pManager, supported, result>>
    /\ UNCHANGED mainVars

\* The registry's global event: a seat of an accepted version is collected,
\* the manager's version is remembered.
ProbeGlobal ==
    /\ ppc = "globals"
    /\ s2c # <<>>
    /\ Head(s2c).ev = "global"
    /\ LET g == Head(s2c)
       IN /\ pSeats' = IF g.interface = SeatName /\ g.version >= MinSeatVersion
                       THEN Append(pSeats, g.version)
                       ELSE pSeats
          /\ pManager' = IF g.interface = ManagerName THEN g.version ELSE pManager
    /\ s2c' = Tail(s2c)
    /\ UNCHANGED <<srvSeats, srvManager, srvHandler, answersLeft, c2s,
                   ppc, supported, result, requested>>
    /\ UNCHANGED mainVars

\* The seat check made before the manager's version is looked at.
ProbeClassifySeatsFirst(seatVs, mgrV) ==
    IF seatVs = <<>> THEN ErrNoSeats
    ELSE IF mgrV = 0 THEN ErrMissingProtocol(ManagerName, MinManagerVersion)
    ELSE IF mgrV < PrimaryManagerVersion THEN Ok(FALSE)
    ELSE [kind |-> "exchange"]

\* A manager below the primary-selection version treated as too old.
ProbeClassifyStrict(seatVs, mgrV) ==
    IF mgrV = 0 THEN ErrMissingProtocol(ManagerName, MinManagerVersion)
    ELSE IF mgrV < PrimaryManagerVersion THEN ErrSeatVersionTooLow
    ELSE IF seatVs = <<>> THEN ErrNoSeats
    ELSE [kind |-> "exchange"]

\* The seat check left out.
ProbeClassifyNoSeatCheck(seatVs, mgrV) ==
    IF mgrV = 0 THEN ErrMissingProtocol(ManagerName, MinManagerVersion)
    ELSE IF mgrV < PrimaryManagerVersion THEN Ok(FALSE)
    ELSE [kind |-> "exchange"]

\* What the probe decides from the registry alone; "exchange" when it has to
\* ask for a data device.  The order is that of the design's steps 2-4; a
\* manager below the primary-selection version yields Ok(false) before the
\* seat check, which is what is_primary_selection_supported_data_control_v1
\* (no seat, version 1, result false) asserts.
ProbeClassify(seatVs, mgrV) ==
    IF mgrV = 0 THEN ErrMissingProtocol(ManagerName, MinManagerVersion)
    ELSE IF mgrV < MinManagerVersion THEN ErrSeatVersionTooLow
    ELSE IF mgrV < PrimaryManagerVersion THEN Ok(FALSE)
    ELSE IF seatVs = <<>> THEN ErrNoSeats
    ELSE [kind |-> "exchange"]

\* The first round trip is over: decide, or bind the manager, ask for the
\* data device of one seat and start the second round trip.
ProbeCheck ==
    /\ ppc = "globals"
    /\ s2c # <<>>
    /\ Head(s2c).ev = "done"
    /\ s2c' = Tail(s2c)
    /\ LET c == ProbeClassify(pSeats, pManager)
       IN IF c.kind = "exchange"
          THEN LET reqs == <<[req |-> "bind", interface |-> ManagerName],
                             [req |-> "get_data_device", seat |-> 1],
                             [req |-> "sync"]>>
               IN /\ c2s' = c2s \o reqs
                  /\ requested' = requested \o reqs
                  /\ ppc' = "device"
                  /\ result' = result
          ELSE /\ result' = c
               /\ ppc' = "done"
               /\ UNCHANGED <<c2s, requested>>
    /\ UNCHANGED <<srvSeats, srvManager, srvHandler, answersLeft,
                   pSeats, pManager, supported>>
    /\ UNCHANGED mainVars

\* The device's primary_selection event.
ProbePrimarySelection ==
    /\ ppc = "device"
    /\ s2c # <<>>
    /\ Head(s2c).ev = "primary_selection"
    /\ supported' = TRUE
    /\ s2c' = Tail(s2c)
    /\ UNCHANGED <<srvSeats, srvManager, srvHandler, answersLeft, c2s,
                   ppc, pSeats, pManager, result, requested>>
    /\ UNCHANGED mainVars

\* The second round trip is over: report the flag.
ProbeFinish ==
    /\ ppc = "device"
    /\ s2c # <<>>
    /\ Head(s2c).ev = "done"
    /\ s2c' = Tail(s2c)
    /\ result' = Ok(supported)
    /\ ppc' = "done"
    /\ UNCHANGED <<srvSeats, srvManager, srvHandler, answersLeft, c2s,
                   pSeats, pManager, supported, requested>>
    /\ UNCHANGED mainVars

\* ----------------------------------------------------------------- wl-copy
Range(f) == {f[i] : i \in DOMAIN f}

NoName == "(none)"
\* Names the compositor gives its seats.
SeatNames == {"seat0", "seat1"}
\* Values of --type, NoName when the option is absent.
MimeTypes == {NoName, "text/html", "image/png"}
DefaultMimeType == "application/octet-stream"
UnofferedLabel == "application/x-unoffered"

\* utils::is_text: whether a MIME type denotes text.
IsText(mime) == mime \in {"text/html", "text/plain"}

\* ClipboardManager::requires_serial: the primary-selection manager takes the
\* selection with a serial, the data-control manager without one.
RequiresSerial(m) == m = "primary"

\* initialize(primary): the manager variant the option selects.
SelectManager(primary) == IF primary THEN "primary" ELSE "regular"

\* The MIME type make_source returns.
SourceMimeType(opts) ==
    IF opts.mime_type = NoName THEN DefaultMimeType ELSE opts.mime_type

\* The payload's own type offered first.
SourceOffersOwnFirst(mime) ==
    IF IsText(mime)
    THEN <<mime, "text/plain;charset=utf-8", "text/plain", "STRING",
           "UTF8_STRING", "TEXT">>
    ELSE <<mime>>

\* The labels main() offers on a new source, in order.
SourceOffers(mime) ==
    IF IsText(mime)
    THEN <<"text/plain;charset=utf-8", "text/plain", "STRING", "UTF8_STRING",
           "TEXT", mime>>
    ELSE <<mime>>

NewSeat == [name |-> NoName, device |-> FALSE, selection |-> "unset"]

\* A process that has not terminated has no exit status: 256 stands for
\* none, outside the range 0..255 of exit statuses.
Running == [code |-> 256, why |-> "running"]
Exited(code, why) == [code |-> code, why |-> why]

\* Command lines clap accepts: --clear conflicts with --paste-once,
\* --foreground and --type.
ValidOptions(o) ==
    o.clear => (~o.paste_once /\ ~o.foreground /\ o.mime_type = NoName)

AllOptions ==
    [paste_once : BOOLEAN, foreground : BOOLEAN, clear : BOOLEAN,
     primary : BOOLEAN, seat : {NoName, "seat0"}, mime_type : MimeTypes]

\* The filter with the name comparison left out.
SelectedDevicesAll(ss, opts) == {i \in DOMAIN ss : ss[i].device}

\* The seats whose device main() keeps: a seat without a device is skipped,
\* without --seat every other seat is kept, with --seat only those so named.
SelectedDevices(ss, opts) ==
    {i \in DOMAIN ss :
        /\ ss[i].device
        /\ \/ opts.seat = NoName
           \/ (ss[i].name # NoName /\ ss[i].name = opts.seat)}

\* if seats.is_empty() { exit(1) }
CheckSeats ==
    /\ pc = "check_seats"
    /\ IF seats = <<>>
       THEN /\ pc' = "exited"
            /\ exit' = Exited(1, "no_seats")
       ELSE /\ pc' = "check_serial"
            /\ exit' = exit
    /\ UNCHANGED <<options, manager, seats, proc, parent, source, offers,
                   should_quit, fileExists, dirExists, devices, pending, batch,
                   eventsSent, served, cancelled>>
    /\ UNCHANGED hist
    /\ UNCHANGED probeVars

\* main() without the requires_serial() exit.
CheckSerialMissing ==
    /\ pc = "check_serial"
    /\ pc' = "create_source"
    /\ UNCHANGED <<options, manager, seats, proc, parent, exit, source, offers,
                   should_quit, fileExists, dirExists, devices, pending, batch,
                   eventsSent, served, cancelled>>
    /\ UNCHANGED hist
    /\ UNCHANGED probeVars

\* if clipboard_manager.requires_serial() { exit(1) }
CheckSerial ==
    /\ pc = "check_serial"
    /\ IF RequiresSerial(manager)
       THEN /\ pc' = "exited"
            /\ exit' = Exited(1, "serial")
       ELSE /\ pc' = "create_source"
            /\ exit' = exit
    /\ UNCHANGED <<options, manager, seats, proc, parent, source, offers,
                   should_quit, fileExists, dirExists, devices, pending, batch,
                   eventsSent, served, cancelled>>
    /\ UNCHANGED hist
    /\ UNCHANGED probeVars

\* The source's flag created as Cell::new(true).
CreateSourceQuitSet ==
    /\ pc = "create_source"
    /\ IF ~options.clear
       THEN /\ fileExists' = TRUE
            /\ dirExists' = TRUE
            /\ source' = TRUE
            /\ should_quit' = TRUE
            /\ offers' = SourceOffers(SourceMimeType(options))
       ELSE UNCHANGED <<fileExists, dirExists, source, should_quit, offers>>
    /\ pc' = "get_devices"
    /\ UNCHANGED <<options, manager, seats, proc, parent, exit, devices,
                   pending, batch, eventsSent, served, cancelled, hist>>
    /\ UNCHANGED probeVars

\* The source made whether or not --clear was given.
CreateSourceAlways ==
    /\ pc = "create_source"
    /\ fileExists' = TRUE
    /\ dirExists' = TRUE
    /\ source' = TRUE
    /\ should_quit' = FALSE
    /\ offers' = SourceOffers(SourceMimeType(options))
    /\ pc' = "get_devices"
    /\ UNCHANGED <<options, manager, seats, proc, parent, exit, devices,
                   pending, batch, eventsSent, served, cancelled, hist>>
    /\ UNCHANGED probeVars

\* Unless clearing: make_source creates the temporary directory and the file
\* in it, the source is created with should_quit = false and the labels are
\* offered.
CreateSource ==
    /\ pc = "create_source"
    /\ IF ~options.clear
       THEN /\ fileExists' = TRUE
            /\ dirExists' = TRUE
            /\ source' = TRUE
            /\ should_quit' = FALSE
            /\ offers' = SourceOffers(SourceMimeType(options))
       ELSE UNCHANGED <<fileExists, dirExists, source, should_quit, offers>>
    /\ pc' = "get_devices"
    /\ UNCHANGED <<options, manager, seats, proc, parent, exit, devices,
                   pending, batch, eventsSent, served, cancelled>>
    /\ UNCHANGED hist
    /\ UNCHANGED probeVars

\* for seat in seats { seat_data.set_device(Some(device)) }
GetDevices ==
    /\ pc = "get_devices"
    /\ seats' = [i \in DOMAIN seats |-> [seats[i] EXCEPT !.device = TRUE]]
    /\ pc' = "roundtrip"
    /\ UNCHANGED <<options, manager, proc, parent, exit, source, offers,
                   should_quit, fileExists, dirExists, devices, pending, batch,
                   eventsSent, served, cancelled>>
    /\ hist' = [hist EXCEPT !.bound = Len(seats)]
    /\ UNCHANGED probeVars

\* The names a round trip can deliver: each seat keeps its name or, having
\* none yet, gets one.
NamedSeats(ss) ==
    {t \in [DOMAIN ss -> [name : SeatNames \cup {NoName}, device : BOOLEAN,
                          selection : {"unset", "source", "cleared"}]] :
        \A i \in DOMAIN ss :
            /\ t[i].device = ss[i].device
            /\ t[i].selection = ss[i].selection
            /\ ss[i].name # NoName => t[i].name = ss[i].name}

\* queue.sync_roundtrip(): the seats' name events are handled; the registry
\* may announce one more seat, which joins the list without a device.
Roundtrip ==
    /\ pc = "roundtrip"
    /\ \E named \in NamedSeats(seats), more \in BOOLEAN :
          seats' = IF more /\ Len(named) < MaxSeats
                   THEN Append(named, NewSeat)
                   ELSE named
    /\ pc' = "select"
    /\ UNCHANGED <<options, manager, proc, parent, exit, source, offers,
                   should_quit, fileExists, dirExists, devices, pending, batch,
                   eventsSent, served, cancelled>>
    /\ hist' = [hist EXCEPT !.roundtrips = @ + 1]
    /\ UNCHANGED probeVars

\* A failed expect(): the process panics where it stands.
Panic(why) ==
    /\ pc' = "exited"
    /\ exit' = Exited(101, why)
    /\ UNCHANGED <<options, manager, seats, proc, parent, source, offers,
                   should_quit, fileExists, dirExists, devices, pending, batch,
                   eventsSent, served, cancelled>>
    /\ UNCHANGED probeVars

\* sync_roundtrip().expect("Error doing a roundtrip")
RoundtripFail ==
    /\ pc = "roundtrip"
    /\ Panic("roundtrip")
    /\ hist' = [hist EXCEPT !.roundtrips = @ + 1]

\* Collect the devices; if devices.is_empty() { exit(1) }
SelectDevices ==
    /\ pc = "select"
    /\ devices' = SelectedDevices(seats, options)
    /\ IF devices' = {}
       THEN /\ pc' = "exited"
            /\ exit' = Exited(1, "seat_not_found")
       ELSE /\ pc' = "set_selection"
            /\ exit' = exit
    /\ UNCHANGED <<options, manager, seats, proc, parent, source, offers,
                   should_quit, fileExists, dirExists, pending, batch,
                   eventsSent, served, cancelled>>
    /\ UNCHANGED hist
    /\ UNCHANGED probeVars

\* main() going on without the set_selection loop.
SetSelectionSkipped ==
    /\ pc = "set_selection"
    /\ pc' = IF source THEN "fork" ELSE "clear_roundtrip"
    /\ UNCHANGED <<options, manager, seats, proc, parent, exit, source, offers,
                   should_quit, fileExists, dirExists, devices, pending, batch,
                   eventsSent, served, cancelled, hist>>
    /\ UNCHANGED probeVars

\* if !requires_serial() { for device in devices { device.set_selection(..) } }
SetSelection ==
    /\ pc = "set_selection"
    /\ seats' = IF RequiresSerial(manager) THEN seats
                ELSE [i \in DOMAIN seats |->
                        IF i \in devices
                        THEN [seats[i] EXCEPT
                                !.selection = IF source THEN "source" ELSE "cleared"]
                        ELSE seats[i]]
    /\ pc' = IF source THEN "fork" ELSE "clear_roundtrip"
    /\ UNCHANGED <<options, manager, proc, parent, exit, source, offers,
                   should_quit, fileExists, dirExists, devices, pending, batch,
                   eventsSent, served, cancelled>>
    /\ UNCHANGED hist
    /\ UNCHANGED probeVars

\* The match on the fork result inverted: the child returns and the parent
\* goes on into the loop.
ForkInverted ==
    /\ pc = "fork"
    /\ pc' = "loop"
    /\ UNCHANGED <<options, manager, seats, proc, parent, exit, source, offers,
                   should_quit, fileExists, dirExists, devices, pending, batch,
                   eventsSent, served, cancelled, hist>>
    /\ UNCHANGED probeVars

\* if !foreground { fork(): the parent returns from main, the child goes on }
Fork ==
    /\ pc = "fork"
    /\ IF ~options.foreground
       THEN /\ proc' = "child"
            /\ parent' = "returned"
       ELSE UNCHANGED <<proc, parent>>
    /\ pc' = "loop"
    /\ UNCHANGED <<options, manager, seats, exit, source, offers,
                   should_quit, fileExists, dirExists, devices, pending, batch,
                   eventsSent, served, cancelled>>
    /\ UNCHANGED hist
    /\ UNCHANGED probeVars

\* fork().expect("Error forking")
ForkFail ==
    /\ pc = "fork"
    /\ ~options.foreground
    /\ Panic("fork")
    /\ UNCHANGED hist

\* The while condition with the negation lost.
LoopCheckInverted ==
    /\ pc = "loop"
    /\ pc' = IF should_quit THEN "flush" ELSE "remove_file"
    /\ hist' = [hist EXCEPT !.looped = TRUE]
    /\ UNCHANGED <<options, manager, seats, proc, parent, exit, source, offers,
                   should_quit, fileExists, dirExists, devices, pending, batch,
                   eventsSent, served, cancelled>>
    /\ UNCHANGED probeVars

\* while !should_quit.get()
LoopCheck ==
    /\ pc = "loop"
    /\ pc' = IF should_quit THEN "remove_file" ELSE "flush"
    /\ UNCHANGED <<options, manager, seats, proc, parent, exit, source, offers,
                   should_quit, fileExists, dirExists, devices, pending, batch,
                   eventsSent, served, cancelled>>
    /\ hist' = [hist EXCEPT !.looped = TRUE]
    /\ UNCHANGED probeVars

\* display.flush()
Flush ==
    /\ pc = "flush"
    /\ pc' = "dispatch"
    /\ UNCHANGED <<options, manager, seats, proc, parent, exit, source, offers,
                   should_quit, fileExists, dirExists, devices, pending, batch,
                   eventsSent, served, cancelled>>
    /\ UNCHANGED hist
    /\ UNCHANGED probeVars

\* display.flush().expect("Error flushing display")
FlushFail ==
    /\ pc = "flush"
    /\ Panic("flush")
    /\ UNCHANGED hist

\* queue.dispatch(): block until events have arrived, read them all, then
\* call the handler of each in order.
Dispatch ==
    /\ pc = "dispatch"
    /\ pending # <<>>
    /\ batch' = pending
    /\ pending' = <<>>
    /\ pc' = "handle"
    /\ UNCHANGED <<options, manager, seats, proc, parent, exit, source, offers,
                   should_quit, fileExists, dirExists, devices,
                   eventsSent, served, cancelled>>
    /\ UNCHANGED hist
    /\ UNCHANGED probeVars

\* queue.dispatch().expect("Error dispatching queue")
DispatchFail ==
    /\ pc = "dispatch"
    /\ Panic("dispatch")
    /\ UNCHANGED hist

\* DataSourceHandler::send: copy the payload file to the descriptor; with
\* paste_once set should_quit.  The handler is built from paste_once alone
\* (line 168) before any label is offered, and the source's user data holds
\* should_quit and the path (line 166): the label requested is not compared
\* with the labels offered, and should_quit is read by the loop only.  The
\* copy itself is taken to succeed.
HandleSend ==
    /\ pc = "handle"
    /\ batch # <<>>
    /\ Head(batch).ev = "send"
    /\ served' = served + 1
    /\ should_quit' = IF options.paste_once THEN TRUE ELSE should_quit
    /\ batch' = Tail(batch)
    /\ UNCHANGED <<options, manager, seats, pc, proc, parent, exit, source,
                   offers, fileExists, dirExists, devices, pending,
                   eventsSent, cancelled>>
    /\ hist' = IF Head(batch).mime \in Range(offers) THEN hist
               ELSE [hist EXCEPT !.unoffered = @ + 1]
    /\ UNCHANGED probeVars

\* DataSourceHandler::cancelled: the selection was taken over; set
\* should_quit.
HandleCancelled ==
    /\ pc = "handle"
    /\ batch # <<>>
    /\ Head(batch).ev = "cancelled"
    /\ cancelled' = TRUE
    /\ should_quit' = TRUE
    /\ batch' = Tail(batch)
    /\ UNCHANGED <<options, manager, seats, pc, proc, parent, exit, source,
                   offers, fileExists, dirExists, devices, pending,
                   eventsSent, served>>
    /\ UNCHANGED hist
    /\ UNCHANGED probeVars

\* dispatch() returns once every event it read has been handled.
DispatchReturn ==
    /\ pc = "handle"
    /\ batch = <<>>
    /\ pc' = "loop"
    /\ UNCHANGED <<options, manager, seats, proc, parent, exit, source, offers,
                   should_quit, fileExists, dirExists, devices, pending, batch,
                   eventsSent, served, cancelled>>
    /\ UNCHANGED hist
    /\ UNCHANGED probeVars

\* remove_file(data_path)
RemoveFile ==
    /\ pc = "remove_file"
    /\ fileExists
    /\ fileExists' = FALSE
    /\ pc' = "remove_dir"
    /\ UNCHANGED <<options, manager, seats, proc, parent, exit, source, offers,
                   should_quit, dirExists, devices, pending, batch,
                   eventsSent, served, cancelled>>
    /\ hist' = [hist EXCEPT !.rmFile = Append(@, proc)]
    /\ UNCHANGED probeVars

\* remove_file(..).expect("Error removing the temp file")
RemoveFileFail ==
    /\ pc = "remove_file"
    /\ Panic("remove_file")
    /\ hist' = [hist EXCEPT !.rmFile = Append(@, proc)]

\* data_path.pop(); remove_dir(data_path); main returns
RemoveDir ==
    /\ pc = "remove_dir"
    /\ dirExists /\ ~fileExists
    /\ dirExists' = FALSE
    /\ pc' = "exited"
    /\ exit' = Exited(0, "done")
    /\ UNCHANGED <<options, manager, seats, proc, parent, source, offers,
                   should_quit, fileExists, devices, pending, batch,
                   eventsSent, served, cancelled>>
    /\ hist' = [hist EXCEPT !.rmDir = Append(@, proc)]
    /\ UNCHANGED probeVars

\* remove_dir(..).expect("Error removing the temp directory")
RemoveDirFail ==
    /\ pc = "remove_dir"
    /\ Panic("remove_dir")
    /\ hist' = [hist EXCEPT !.rmDir = Append(@, proc)]

\* Clearing: one round trip, then main returns.
ClearRoundtrip ==
    /\ pc = "clear_roundtrip"
    /\ pc' = "exited"
    /\ exit' = Exited(0, "cleared")
    /\ UNCHANGED <<options, manager, seats, proc, parent, source, offers,
                   should_quit, fileExists, dirExists, devices, pending, batch,
                   eventsSent, served, cancelled>>
    /\ hist' = [hist EXCEPT !.roundtrips = @ + 1]
    /\ UNCHANGED probeVars

\* sync_roundtrip().expect("Error doing a roundtrip"), when clearing
ClearRoundtripFail ==
    /\ pc = "clear_roundtrip"
    /\ Panic("clear_roundtrip")
    /\ hist' = [hist EXCEPT !.roundtrips = @ + 1]

\* The source is some seat's selection and its owner is alive.
Published ==
    /\ source
    /\ pc # "exited"
    /\ \E i \in DOMAIN seats : seats[i].selection = "source"

\* The compositor forwards a paste request for some label.
CompositorSend ==
    /\ Published
    /\ eventsSent < MaxEvents
    /\ \E m \in {offers[Len(offers)], UnofferedLabel} :
          pending' = Append(pending, [ev |-> "send", mime |-> m])
    /\ eventsSent' = eventsSent + 1
    /\ UNCHANGED <<options, manager, seats, pc, proc, parent, exit, source,
                   offers, should_quit, fileExists, dirExists, devices, batch,
                   served, cancelled>>
    /\ UNCHANGED hist
    /\ UNCHANGED probeVars

\* The compositor tells the source that another client took the selection.
CompositorCancel ==
    /\ Published
    /\ eventsSent < MaxEvents
    /\ pending' = Append(pending, [ev |-> "cancelled"])
    /\ eventsSent' = eventsSent + 1
    /\ UNCHANGED <<options, manager, seats, pc, proc, parent, exit, source,
                   offers, should_quit, fileExists, dirExists, devices, batch,
                   served, cancelled>>
    /\ UNCHANGED hist
    /\ UNCHANGED probeVars

\* Nothing done yet: bound = seats given a device by lines 188-195, roundtrips =
\* sync_roundtrip() calls made, looped = the while condition has been
\* evaluated, unoffered = transfers answered for a label never offered,
\* rmFile / rmDir = the processes that called remove_file / remove_dir.
NoHistory == [bound |-> 0, roundtrips |-> 0, looped |-> FALSE, unoffered |-> 0,
              rmFile |-> <<>>, rmDir |-> <<>>]

\* The probe's variables while wl-copy runs.
ProbeIdle ==
    /\ srvSeats = <<>>
    /\ srvManager = 0
    /\ srvHandler = "silent"
    /\ answersLeft = 0
    /\ c2s = <<>>
    /\ s2c = <<>>
    /\ ppc = "idle"
    /\ pSeats = <<>>
    /\ pManager = 0
    /\ supported = FALSE
    /\ result = NoResult
    /\ requested = <<>>

\* wl-copy's variables while the probe runs.
MainIdle ==
    /\ options = [paste_once |-> FALSE, foreground |-> FALSE, clear |-> FALSE,
                  primary |-> FALSE, seat |-> NoName, mime_type |-> NoName]
    /\ manager = "regular"
    /\ seats = <<>>
    /\ pc = "idle"
    /\ proc = "main"
    /\ parent = "running"
    /\ exit = Running
    /\ source = FALSE
    /\ offers = <<>>
    /\ should_quit = FALSE
    /\ fileExists = FALSE
    /\ dirExists = FALSE
    /\ devices = {}
    /\ pending = <<>>
    /\ batch = <<>>
    /\ eventsSent = 0
    /\ served = 0
    /\ cancelled = FALSE
    /\ hist = NoHistory

\* After Options::from_args() and initialize(options.primary): any accepted
\* command line, the manager it selects and the seats the registry announced.
MainInit ==
    /\ options \in {o \in AllOptions : ValidOptions(o)}
    /\ manager = SelectManager(options.primary)
    /\ seats \in {[i \in 1..n |-> NewSeat] : n \in 0..MaxSeats}
    /\ pc = "check_seats"
    /\ proc = "main"
    /\ parent = "running"
    /\ exit = Running
    /\ source = FALSE
    /\ offers = <<>>
    /\ should_quit = FALSE
    /\ fileExists = FALSE
    /\ dirExists = FALSE
    /\ devices = {}
    /\ pending = <<>>
    /\ batch = <<>>
    /\ eventsSent = 0
    /\ served = 0
    /\ cancelled = FALSE
    /\ hist = NoHistory

Init == MainInit /\ ProbeIdle

Next ==
    \/ CheckSeats
    \/ CheckSerial
    \/ CreateSource
    \/ GetDevices
    \/ Roundtrip
    \/ RoundtripFail
    \/ SelectDevices
    \/ SetSelection
    \/ Fork
    \/ ForkFail
    \/ LoopCheck
    \/ Flush
    \/ FlushFail
    \/ Dispatch
    \/ DispatchFail
    \/ HandleSend
    \/ HandleCancelled
    \/ DispatchReturn
    \/ RemoveFile
    \/ RemoveFileFail
    \/ RemoveDir
    \/ RemoveDirFail
    \/ ClearRoundtrip
    \/ ClearRoundtripFail
    \/ CompositorSend
    \/ CompositorCancel

Spec == Init /\ [][Next]_vars

ProbeInit ==
    /\ srvSeats \in SeqsUpTo(SeatVersions, MaxSrvSeats)
    /\ srvManager \in {0, MinManagerVersion, PrimaryManagerVersion}
    /\ srvHandler \in {"primary", "silent"}
    /\ answersLeft = NumAnswers
    /\ c2s = <<>>
    /\ s2c = <<>>
    /\ ppc = "connect"
    /\ pSeats = <<>>
    /\ pManager = 0
    /\ supported = FALSE
    /\ result = NoResult
    /\ requested = <<>>
    /\ MainIdle

ProbeNext ==
    \/ ServerAnswer
    \/ ProbeConnect
    \/ ProbeGlobal
    \/ ProbeCheck
    \/ ProbePrimarySelection
    \/ ProbeFinish

SpecProbe == ProbeInit /\ [][ProbeNext]_vars


\* The dispatch loop and the clean-up keep running: the process is not
\* stopped from outside, and queue.dispatch() returns once events have come.
LoopFairness ==
    /\ WF_vars(LoopCheck)
    /\ WF_vars(Flush)
    /\ WF_vars(Dispatch)
    /\ WF_vars(HandleSend)
    /\ WF_vars(HandleCancelled)
    /\ WF_vars(DispatchReturn)
    /\ WF_vars(RemoveFile)
    /\ WF_vars(RemoveDir)

FairSpec == Init /\ [][Next]_vars /\ LoopFairness

\* ------------------------------------------------------------- properties
\* The probe has not returned and cannot take another step.
ProbeStuck == ppc # "done" /\ ~ENABLED ProbeNext

GetDataDeviceRequests == {i \in DOMAIN requested : requested[i].req = "get_data_device"}

\* C1: with a seat and the manager at version 2 advertised and a server that
\* answers get_data_device with primary_selection, the probe never hangs and
\* returns Ok(true).
C1_ProbeSupported ==
    (srvSeats # <<>> /\ srvManager = PrimaryManagerVersion /\ srvHandler = "primary")
        => /\ ~ProbeStuck
           /\ ppc = "done" => result = Ok(TRUE)

C1_Witness ==
    /\ srvSeats # <<>> /\ srvManager = PrimaryManagerVersion /\ srvHandler = "primary"
    /\ GetDataDeviceRequests # {}
    /\ ppc = "done"
    /\ result = Ok(TRUE)

\* C2: with a seat and the manager at version 2 advertised and a server that
\* never sends primary_selection, the probe does not wait for the event: it
\* never hangs and returns Ok(false).
C2_ProbeUnsupported ==
    (srvSeats # <<>> /\ srvManager = PrimaryManagerVersion /\ srvHandler = "silent")
        => /\ ~ProbeStuck
           /\ ppc = "done" => result = Ok(FALSE)

C2_Witness ==
    /\ srvSeats # <<>> /\ srvManager = PrimaryManagerVersion /\ srvHandler = "silent"
    /\ GetDataDeviceRequests # {}
    /\ s2c = <<>>
    /\ ppc = "done"
    /\ result = Ok(FALSE)

\* C3: with the manager advertised at version 1 the probe returns Ok(false),
\* with or without a seat.
C3_ProbeManagerV1 ==
    srvManager = MinManagerVersion
        => /\ ~ProbeStuck
           /\ ppc = "done" => result = Ok(FALSE)

C3_Witness ==
    /\ srvManager = MinManagerVersion
    /\ srvSeats = <<>>
    /\ ppc = "done"
    /\ result = Ok(FALSE)

\* C4 as stated: with the manager advertised at version 1 the probe fails
\* with SeatVersionTooLow or MissingProtocol{manager name, 1}.
C4_Original ==
    (srvManager = MinManagerVersion /\ ppc = "done")
        => result \in {ErrSeatVersionTooLow,
                       ErrMissingProtocol(ManagerName, MinManagerVersion)}

\* C4 amended: with the manager advertised at version 1 the probe does not
\* fail: it never holds an error result, asks for no data device, and what it
\* returns is a success carrying false.
C4_ProbeManagerV1NoError ==
    srvManager = MinManagerVersion
        => /\ result.kind # "err"
           /\ GetDataDeviceRequests = {}
           /\ ppc = "done" => (result.kind = "ok" /\ ~result.value)

C4_Witness ==
    /\ srvManager = MinManagerVersion
    /\ srvSeats # <<>>
    /\ ppc = "done"
    /\ result.kind = "ok"

\* C5: with no manager advertised the probe fails with
\* MissingProtocol{"zwlr_data_control_manager_v1", 1}, also when no seat is
\* advertised either.
C5_ProbeMissingProtocol ==
    srvManager = 0
        => /\ ~ProbeStuck
           /\ ppc = "done" => result = ErrMissingProtocol("zwlr_data_control_manager_v1", 1)

C5_Witness ==
    /\ srvManager = 0
    /\ srvSeats = <<>>
    /\ ppc = "done"
    /\ result.kind = "err"
    /\ result.error = "MissingProtocol"

\* C6: with the manager at version 2 and no seat advertised the probe fails
\* with NoSeats and has asked for no data device.
C6_ProbeNoSeats ==
    (srvManager = PrimaryManagerVersion /\ srvSeats = <<>>)
        => /\ ~ProbeStuck
           /\ GetDataDeviceRequests = {}
           /\ ppc = "done" => result = ErrNoSeats

C6_Witness ==
    /\ srvManager = PrimaryManagerVersion
    /\ srvSeats = <<>>
    /\ ppc = "done"
    /\ result = ErrNoSeats

\* C7: a seat advertised at version 2 is collected, so with such a seat and
\* the manager at version 2 the probe never returns NoSeats, whichever
\* handler the server runs.
C7_ProbeV2Seat ==
    ((\E i \in DOMAIN srvSeats : srvSeats[i] = 2) /\ srvManager = PrimaryManagerVersion)
        => /\ result # ErrNoSeats
           /\ ppc = "done" => (pSeats # <<>> /\ result.kind = "ok")

C7_Witness ==
    /\ srvSeats = <<2>>
    /\ srvManager = PrimaryManagerVersion
    /\ pSeats = <<2>>
    /\ ppc = "done"
    /\ result.kind = "ok"

\* C8 as stated: with paste_once, once a transfer has been answered
\* should_quit is true and no second transfer is ever answered; without
\* paste_once only a cancellation sets should_quit.
C8_Original ==
    /\ (source /\ options.paste_once)
          => /\ served >= 1 => should_quit
             /\ served <= 1
    /\ (source /\ ~options.paste_once /\ should_quit) => cancelled

\* main() is past the device selection of lines 200-240.
PastSelect ==
    \/ pc \in {"set_selection", "fork", "loop", "flush", "dispatch", "handle",
               "remove_file", "remove_dir", "clear_roundtrip"}
    \/ pc = "exited" /\ exit.why \notin {"no_seats", "serial", "roundtrip"}

\* Some seat with a device carries the requested name.
NameMatches == \E i \in DOMAIN seats : seats[i].device /\ seats[i].name = options.seat

\* C9: with --seat given, a selection is only ever set on a seat that has
\* that name; and when no seat with a device has that name the process exits
\* with status 1 and no selection set anywhere.
C9_NamedSeatFilter ==
    options.seat # NoName
        => /\ \A i \in DOMAIN seats :
                seats[i].selection # "unset" => seats[i].name = options.seat
           /\ (PastSelect /\ ~NameMatches)
                => /\ exit.why = "seat_not_found" /\ exit.code = 1
                   /\ \A i \in DOMAIN seats : seats[i].selection = "unset"
           /\ (PastSelect /\ NameMatches) => exit.why # "seat_not_found"

C9_Witness ==
    /\ options.seat = "seat0"
    /\ exit.why = "seat_not_found" /\ exit.code = 1
    /\ \E i \in DOMAIN seats : seats[i].device /\ seats[i].name = "seat1"
    /\ \E i \in DOMAIN seats : seats[i].name = NoName

\* C10: with no seat, or with a manager that requires a serial, the process
\* exits with status 1 before the payload file, the source, any device or any
\* selection exists; so line 244 is never reached with requires_serial true.
C10_FailFast ==
    /\ (seats = <<>> \/ RequiresSerial(manager))
          => /\ pc \in {"check_seats", "check_serial", "exited"}
             /\ pc = "exited" => (exit.why \in {"no_seats", "serial"} /\ exit.code = 1)
             /\ ~fileExists /\ ~dirExists /\ ~source
             /\ \A i \in DOMAIN seats : ~seats[i].device /\ seats[i].selection = "unset"
    /\ pc = "set_selection" => ~RequiresSerial(manager)

C10_Witness ==
    /\ RequiresSerial(manager)
    /\ seats # <<>>
    /\ exit.why = "serial" /\ exit.code = 1


\* Positions inside the dispatch loop of lines 262-265.
LoopPcs == {"flush", "dispatch", "handle"}

\* The labels lines 171-180 offer for the command line's MIME type.
ExpectedOffers ==
    LET mime == IF options.mime_type = NoName THEN "application/octet-stream"
                ELSE options.mime_type
    IN IF IsText(mime)
       THEN <<"text/plain;charset=utf-8", "text/plain", "STRING", "UTF8_STRING",
              "TEXT">> \o <<mime>>
       ELSE <<mime>>

\* C11: without --foreground the fork is taken once, from a state in which
\* the source exists with all its labels offered, every seat of the binding
\* loop has its device, every selected device has the selection set and the
\* while condition has not been evaluated yet; the loop is only ever run by
\* the child, after the parent has returned.
C11_ForkOrder ==
    [][ /\ (parent # parent')
            => /\ ~options.foreground
               /\ parent = "running" /\ parent' = "returned"
               /\ proc = "main" /\ proc' = "child"
               /\ source /\ offers = ExpectedOffers
               /\ hist.bound >= 1
               /\ \A i \in 1..hist.bound : seats[i].device
               /\ devices # {}
               /\ \A i \in devices : seats[i].device /\ seats[i].selection = "source"
               /\ ~hist.looped /\ ~hist.looped'
               /\ served = 0 /\ batch = <<>>
               /\ pc = "fork" /\ pc' = "loop"
        /\ (~options.foreground /\ (hist.looped' \/ pc' \in LoopPcs))
            => (proc' = "child" /\ parent' = "returned")
        /\ (options.foreground \/ ~source') => parent' = "running"
      ]_vars

C11_Witness ==
    /\ ~options.foreground
    /\ parent = "returned"
    /\ proc = "child"
    /\ pc = "loop"
    /\ ~hist.looped
    /\ Len(seats) = 2
    /\ \A i \in DOMAIN seats : seats[i].selection = "source"

\* C12: remove_file is only called after the loop was left with should_quit
\* true, remove_dir only after remove_file has succeeded, and a failed
\* remove_file ends the process with remove_dir never called.
C12_CleanupOrder ==
    /\ hist.rmFile # <<>>
          => /\ should_quit /\ hist.looped
             /\ pc \in {"remove_dir", "exited"}
    /\ (source /\ ~fileExists) => hist.rmFile # <<>>
    /\ hist.rmDir # <<>> => (hist.rmFile # <<>> /\ ~fileExists /\ pc = "exited")
    /\ (source /\ ~dirExists) => (~fileExists /\ hist.rmDir # <<>>)
    /\ pc \in {"remove_file", "remove_dir"} => should_quit
    /\ exit.why = "remove_file" => (hist.rmDir = <<>> /\ fileExists /\ dirExists)

C12_Witness ==
    /\ exit.why = "done"
    /\ should_quit
    /\ hist.rmFile # <<>> /\ hist.rmDir # <<>>
    /\ ~fileExists /\ ~dirExists

\* C13: with --clear there is never a source, a payload file or a
\* directory, no fork, no dispatch loop and no removal; the selection is set
\* to none on every selected device, one round trip follows, and when it
\* succeeds the process exits with status 0.
C13_ClearMode ==
    options.clear
        => /\ ~source /\ offers = <<>> /\ ~fileExists /\ ~dirExists
           /\ proc = "main" /\ parent = "running"
           /\ ~hist.looped /\ pc \notin (LoopPcs \cup {"fork", "loop", "remove_file", "remove_dir"})
           /\ hist.rmFile = <<>> /\ hist.rmDir = <<>>
           /\ \A i \in DOMAIN seats : seats[i].selection \in {"unset", "cleared"}
           /\ (pc = "clear_roundtrip" \/ exit.why \in {"cleared", "clear_roundtrip"})
                => /\ devices # {}
                   /\ \A i \in DOMAIN seats : (seats[i].selection = "cleared") <=> (i \in devices)
           /\ pc = "clear_roundtrip" => hist.roundtrips = 1
           /\ exit.why = "cleared" => (exit.code = 0 /\ hist.roundtrips = 2)
           /\ pc = "exited"
                => exit.why \in {"no_seats", "serial", "roundtrip", "seat_not_found",
                                 "clear_roundtrip", "cleared"}

C13_Witness ==
    /\ options.clear
    /\ exit.why = "cleared" /\ exit.code = 0
    /\ \E i \in DOMAIN seats : seats[i].selection = "cleared"
    /\ \E i \in DOMAIN seats : seats[i].selection = "unset"


C15_ShouldQuitMonotonic ==
    [][ /\ should_quit => should_quit'
        /\ (~source /\ source') => ~should_quit'
        /\ ~source' => ~should_quit'
      ]_vars

C15_Witness ==
    /\ should_quit
    /\ served >= 1
    /\ cancelled
    /\ exit.why = "done"

\* Positions of the while loop of lines 262-265, its condition included.
InLoop == pc \in (LoopPcs \cup {"loop"})

\* An event that makes its handler set should_quit has been delivered.
QuitDelivered ==
    \E q \in {pending, batch} : \E i \in DOMAIN q :
        \/ q[i].ev = "cancelled"
        \/ q[i].ev = "send" /\ options.paste_once

\* C16 as stated: whenever the loop has been entered and the process is no
\* longer in it, should_quit is true.
C16_Original == (hist.looped /\ ~InLoop) => should_quit

\* C16 amended: the loop is left either to the clean-up with should_quit
\* true, which takes a handled cancellation or a paste-once transfer, or by
\* the panic of a failed flush or dispatch; and once such an event has been
\* delivered to the running loop, the loop is eventually left, to the
\* clean-up (remove_file is called) unless a flush or dispatch fails.
C16_LoopExit ==
    /\ [][ /\ (InLoop /\ pc' \notin (LoopPcs \cup {"loop"}))
               => \/ (should_quit /\ pc = "loop" /\ pc' = "remove_file")
                  \/ (~(pc = "loop") /\ pc' = "exited" /\ exit'.why \in {"flush", "dispatch"})
           /\ pc' \in {"remove_file", "remove_dir"}
               => (should_quit' /\ (cancelled' \/ (options.paste_once /\ served' >= 1)))
         ]_vars
    /\ (InLoop /\ QuitDelivered)
          ~> (hist.rmFile # <<>> \/ exit.why \in {"flush", "dispatch"})

C16_Witness ==
    /\ cancelled
    /\ should_quit
    /\ hist.rmFile # <<>>
    /\ exit.why = "done"


\* C17: the labels are all offered when the source is created, before any
\* selection is set, and stay as they are: for a text type the five common
\* text labels in their order and then the type itself, otherwise the type
\* alone.
C17_OffersBeforeSelection ==
    /\ ~source
          => /\ offers = <<>>
             /\ \A i \in DOMAIN seats : seats[i].selection # "source"
    /\ (source /\ options.mime_type = "text/html")
          => offers = <<"text/plain;charset=utf-8", "text/plain", "STRING",
                        "UTF8_STRING", "TEXT", "text/html">>
    /\ (source /\ options.mime_type = "image/png") => offers = <<"image/png">>
    /\ (source /\ options.mime_type = NoName) => offers = <<"application/octet-stream">>

C17_Witness ==
    /\ options.mime_type = "text/html"
    /\ Len(offers) = 6
    /\ \E i \in DOMAIN seats : seats[i].selection = "source"
    /\ served >= 1

\* The step in which the send handler returns from a request whose label
\* was never offered.
UnofferedHandled ==
    /\ pc = "handle"
    /\ batch # <<>>
    /\ Head(batch).ev = "send"
    /\ Head(batch).mime \notin Range(offers)
    /\ batch' = Tail(batch)

C19_CleanupOnce ==
    /\ Len(hist.rmFile) <= 1
    /\ Len(hist.rmDir) <= 1
    /\ \A who \in Range(hist.rmFile) \cup Range(hist.rmDir) :
          who = IF options.foreground THEN "main" ELSE "child"
    /\ parent = "returned" => (~options.foreground /\ proc = "child")
    /\ (~options.foreground /\ (hist.looped \/ hist.rmFile # <<>>))
          => (parent = "returned" /\ proc = "child")
    /\ exit.why = "done" => (Len(hist.rmFile) = 1 /\ Len(hist.rmDir) = 1)

C19_Witness ==
    /\ ~options.foreground
    /\ parent = "returned"
    /\ exit.why = "done"
    /\ hist.rmFile = <<"child">>
    /\ hist.rmDir = <<"child">>

\* C20 as stated: the process that made the payload file and its directory
\* never terminates while either of them still exists.
C20_Original ==
    (source /\ pc = "exited") => (~fileExists /\ ~dirExists)

====
